---------------------------- MODULE Spec2Model ----------------------------
(***************************************************************************)
(* A model of the TreatInk personalization SDK (treatink.v1.2.0.js): the   *)
(* TreatInk singleton, the localStorage entry it persists sessions in, the *)
(* modal/iframe surface, the purchase form, and the network calls and      *)
(* timers that are in flight between its event-loop turns.                 *)
(*                                                                         *)
(* One action is one event-loop turn of the script: a public call up to    *)
(* its first await, the continuation after an awaited fetch, a DOM event   *)
(* handler, a timer callback.  The script is single threaded, so each turn *)
(* is atomic.                                                              *)
(*                                                                         *)
(* Time values (createdAt, updatedAt, timestamp) are the token "t": no     *)
(* branch of the script reads a clock value.  Button styling and the       *)
(* button's disabled flag are presentation and are left out.               *)
(***************************************************************************)
EXTENDS Naturals, Sequences, FiniteSets

VARIABLES
    initialized,    \* TreatInk.initialized
    config,         \* TreatInk.config (NoConfig = null)
    hostname,       \* TreatInk.hostname ("" = null)
    environment,    \* TreatInk.environment
    readyState,     \* document.readyState: "loading" or "complete"
    setup,          \* "none", "pending" (DOMContentLoaded listener registered), "done"
    setupRuns,      \* how many times _setup has run (modal, button, listeners)
    storage,        \* the localStorage item STORAGE_KEY
    modalActive,    \* modal has class "active"
    iframeDisplay,  \* iframe.style.display
    loadingDisplay, \* loading.style.display ("" = no inline style)
    iframeSrc,      \* iframe.src
    iframeOnload,   \* iframe.onload is assigned
    loadPending,    \* the iframe is navigating and will fire "load"
    timers,         \* number of pending loadTimeout timers
    creating,       \* openCustomizer invocations suspended on the create-session fetch
    confirming,     \* confirmOrder invocations suspended on the external-order fetch
    form,           \* the purchase form: its note field and the hidden inputs appended
    lastMsg,        \* the message event most recently delivered to the window
    msgSeq,         \* parity of the number of message events delivered
    event           \* what the last turn did that the outside can observe

vars == << initialized, config, hostname, environment, readyState, setup, setupRuns,
           storage, modalActive, iframeDisplay, loadingDisplay, iframeSrc,
           iframeOnload, loadPending, timers, creating, confirming, form,
           lastMsg, msgSeq, event >>

surfaceVars == << modalActive, iframeDisplay, loadingDisplay, iframeSrc,
                  iframeOnload, loadPending, timers >>

objectVars == << initialized, config, hostname, environment >>

-----------------------------------------------------------------------------
(* Bounds of the model *)

\* openCustomizer invocations that may wait for create-session at once
MaxCreating == 2
\* loadTimeout timers that may be pending at once
MaxTimers == 2
\* confirmOrder invocations that may wait for external-order at once
MaxConfirming == 1
\* lines the note field may hold, and hidden inputs the form may hold
MaxInjected == 3

-----------------------------------------------------------------------------
(* Values *)

PageHostname == "shop.example"

ProductIds == {"p1", "p2"}
Uuids == {"u1", "u2"}

\* TREATINK_CONFIG
TREATINK_CONFIG ==
    [production |-> [baseUrl      |-> <<"https://treatink.com">>,
                     supabaseUrl  |-> <<"https://api.treatink.com">>,
                     customizeUrl |-> <<"https://treatink.com", "/customizer">>],
     sandbox    |-> [baseUrl      |-> <<"https://staging.treatink.com">>,
                     supabaseUrl  |-> <<"https://api.treatink.com">>,
                     customizeUrl |-> <<"https://staging.treatink.com", "/customizer">>]]

Environments == {"production", "sandbox"}

\* config is null until init succeeds
NoConfig ==
    [platform |-> "", productId |-> "", apiKey |-> "", environment |-> "",
     onPersonalizationComplete |-> FALSE, onPersonalizationClose |-> FALSE]

\* An options object in which nothing is given
NoOptions ==
    [platform |-> "", productId |-> "", apiKey |-> "", environment |-> "",
     onPersonalizationComplete |-> FALSE, onPersonalizationClose |-> FALSE]

\* String.prototype.toLowerCase on the platform tags the model feeds to init
ToLowerCase(s) ==
    CASE s = "Shopify"     -> "shopify"
      [] s = "WooCommerce" -> "woocommerce"
      [] OTHER             -> s

\* A payload that is undefined (the message carried none)
Undefined == [sessionUuid |-> "undefined", data |-> "undefined"]

\* JSON.parse/JSON.stringify gave or took null
Null == [null |-> TRUE]

\* iframe.src values: none yet, about:blank, or the customizer URL
NoSrc == [base |-> <<>>, uuid |-> "", platform |-> "", productId |-> "",
          hostname |-> "", environment |-> ""]
AboutBlank == [base |-> <<"about:blank">>, uuid |-> "", platform |-> "",
               productId |-> "", hostname |-> "", environment |-> ""]

\* The localStorage item: missing, not parseable as JSON, or a JSON object
\* keyed by product id
NoItem == [kind |-> "none", sessions |-> << >>]
Malformed == [kind |-> "malformed", sessions |-> << >>]
JsonItem(sessions) == [kind |-> "json", sessions |-> sessions]

\* What a turn shows to the outside, and the options an init call was given
Event(op, result) ==
    [op |-> op, result |-> result, complete |-> FALSE, close |-> FALSE,
     alert |-> FALSE, fetch |-> "none", options |-> NoOptions]

NoMsg == [origin |-> <<>>, type |-> "", payload |-> Undefined, fired |-> FALSE]

-----------------------------------------------------------------------------
(* localStorage: _getPersonalizationSession, _savePersonalizationSession,   *)
(* _updatePersonalizationSession, getAllPersonalizations,                   *)
(* clearPersonalizations                                                    *)

\* JSON.stringify of a session followed by JSON.parse: a key whose value is
\* undefined is not written
JsonRoundTrip(session) ==
    [k \in {j \in DOMAIN session :
              ~(j = "customizationData" /\ session[j] = Undefined)} |-> session[k]]

GetPersonalizationSession(item, productId) ==
    IF item.kind = "none" THEN Null
    ELSE IF item.kind = "malformed" THEN Null
    ELSE IF productId \in DOMAIN item.sessions THEN item.sessions[productId]
    ELSE Null

SavePersonalizationSession(item, productId, session) ==
    IF item.kind = "malformed" THEN item
    ELSE LET sessions == IF item.kind = "json" THEN item.sessions ELSE << >>
         IN  JsonItem([p \in DOMAIN sessions \cup {productId} |->
                          IF p = productId THEN JsonRoundTrip(session)
                          ELSE sessions[p]])

UpdatePersonalizationSession(item, productId, data) ==
    LET session == GetPersonalizationSession(item, productId)
    IN  IF session = Null THEN item
        ELSE SavePersonalizationSession(item, productId,
                 [k \in DOMAIN session \cup {"customizationData", "updatedAt"} |->
                     CASE k = "customized"        -> TRUE
                       [] k = "customizationData" -> data
                       [] k = "updatedAt"         -> "t"
                       [] OTHER                   -> session[k]])

GetAllPersonalizations(item) ==
    IF item.kind = "json" THEN item.sessions ELSE << >>

ClearedStorage == NoItem

\* The session record _createPersonalizationSession builds
NewSession(uuid, cfg, host) ==
    [uuid |-> uuid, productId |-> cfg.productId, platform |-> cfg.platform,
     hostname |-> host, createdAt |-> "t", customized |-> FALSE]

-----------------------------------------------------------------------------
(* init and _setup *)

\* The options objects passed to init ("" = the option is not given)
Options(platforms, productIds, apiKeys, environments, callbacks) ==
    [platform : platforms, productId : productIds, apiKey : apiKeys,
     environment : environments,
     onPersonalizationComplete : callbacks, onPersonalizationClose : callbacks]

\* _setup: styles, button, modal, listeners, add-to-cart interceptor
SetupEffect ==
    /\ setup' = "done"
    /\ setupRuns' = setupRuns + 1

\* !options.platform || !options.productId
LacksRequired(options) ==
    options.platform = "" \/ options.productId = ""

\* init, lines 78-105: the hostname, the environment and the configuration
\* are recorded, and _setup is run or left to the DOMContentLoaded listener
Configure(options) ==
    /\ hostname' = PageHostname
    /\ environment' = IF options.environment = "" THEN "production"
                      ELSE options.environment
    /\ config' = [platform |-> ToLowerCase(options.platform),
                  productId |-> options.productId,
                  apiKey |-> options.apiKey,
                  environment |-> environment',
                  onPersonalizationComplete |-> options.onPersonalizationComplete,
                  onPersonalizationClose |-> options.onPersonalizationClose]
    /\ initialized' = TRUE
    /\ IF readyState = "loading"
       THEN setup' = "pending" /\ setupRuns' = setupRuns
       ELSE SetupEffect

\* init without its already-initialized check: a further call with valid
\* options configures and sets up again
InitAgainReconfigures(options) ==
    /\ initialized
    /\ ~LacksRequired(options)
    /\ Configure(options)
    /\ event' = [Event("init", "true") EXCEPT !.options = options]
    /\ UNCHANGED << readyState, storage, surfaceVars, creating, confirming, form,
                    lastMsg, msgSeq >>

\* init(options) while already initialized: warns and returns undefined
InitAgain(options) ==
    /\ initialized
    /\ event' = [Event("init", "undefined") EXCEPT !.options = options]
    /\ UNCHANGED << objectVars, readyState, setup, setupRuns, storage, surfaceVars,
                    creating, confirming, form, lastMsg, msgSeq >>

\* The validation placed after the hostname and environment detection: the
\* call returns false with both already recorded
InitInvalidPartial(options) ==
    /\ ~initialized
    /\ LacksRequired(options)
    /\ hostname' = PageHostname
    /\ environment' = IF options.environment = "" THEN "production"
                      ELSE options.environment
    /\ event' = [Event("init", "false") EXCEPT !.options = options]
    /\ UNCHANGED << initialized, config, readyState, setup, setupRuns, storage,
                    surfaceVars, creating, confirming, form, lastMsg, msgSeq >>

\* init(options) without platform or productId: returns false
InitInvalid(options) ==
    /\ ~initialized
    /\ LacksRequired(options)
    /\ event' = [Event("init", "false") EXCEPT !.options = options]
    /\ UNCHANGED << objectVars, readyState, setup, setupRuns, storage, surfaceVars,
                    creating, confirming, form, lastMsg, msgSeq >>

\* init(options): records the configuration and runs or schedules _setup
InitOk(options) ==
    /\ ~initialized
    /\ ~LacksRequired(options)
    /\ Configure(options)
    /\ event' = [Event("init", "true") EXCEPT !.options = options]
    /\ UNCHANGED << readyState, storage, surfaceVars, creating, confirming, form,
                    lastMsg, msgSeq >>

\* The document finishes parsing: DOMContentLoaded listeners run
DOMContentLoaded ==
    /\ readyState = "loading"
    /\ readyState' = "complete"
    /\ IF setup = "pending"
       THEN SetupEffect
       ELSE UNCHANGED << setup, setupRuns >>
    /\ event' = Event("DOMContentLoaded", "")
    /\ UNCHANGED << objectVars, storage, surfaceVars, creating, confirming, form,
                    lastMsg, msgSeq >>

-----------------------------------------------------------------------------
(* The surface: openCustomizer, closeCustomizer, the iframe's load event   *)
(* and the load timer                                                       *)

\* The iframe URL openCustomizer builds for a session
LaunchUrl(cfg, host, uuid) ==
    [base |-> TREATINK_CONFIG[cfg.environment].customizeUrl, uuid |-> uuid,
     platform |-> cfg.platform, productId |-> cfg.productId, hostname |-> host,
     environment |-> cfg.environment]

\* The user can see the iframe: the modal is shown and the iframe is displayed
SurfaceVisible == modalActive /\ iframeDisplay = "block"

\* !sessionData || !sessionData.uuid
LacksSession(session) ==
    IF session = Null THEN TRUE ELSE session.uuid = ""

\* openCustomizer, lines 429-432: the modal is shown in its loading state
ShowLoading ==
    /\ modalActive' = TRUE
    /\ iframeDisplay' = "none"
    /\ loadingDisplay' = "block"

\* openCustomizer, lines 444-475: the launch URL is set, iframe.onload is
\* assigned, and a load timer is started together with the once-listener
\* that clears it
StartLoading(uuid) ==
    /\ iframeSrc' = LaunchUrl(config, hostname, uuid)
    /\ loadPending' = TRUE
    /\ iframeOnload' = TRUE
    /\ timers' = timers + 1

\* closeCustomizer's effect on the modal and the iframe
CloseSurface ==
    /\ modalActive' = FALSE
    /\ iframeSrc' = AboutBlank
    /\ loadPending' = TRUE

\* openCustomizer before _setup has built the modal: modal.querySelector
\* throws, the returned promise is rejected
OpenWithoutModal ==
    /\ setup # "done"
    /\ event' = Event("openCustomizer", "rejected")
    /\ UNCHANGED << objectVars, readyState, setup, setupRuns, storage, surfaceVars,
                    creating, confirming, form, lastMsg, msgSeq >>

\* openCustomizer with a stored session: runs to its end in one turn
OpenWithSession ==
    /\ setup = "done"
    /\ ~LacksSession(GetPersonalizationSession(storage, config.productId))
    /\ timers < MaxTimers
    /\ ShowLoading
    /\ StartLoading(GetPersonalizationSession(storage, config.productId).uuid)
    /\ event' = Event("openCustomizer", "resolved")
    /\ UNCHANGED << objectVars, readyState, setup, setupRuns, storage,
                    creating, confirming, form, lastMsg, msgSeq >>

\* openCustomizer without a stored session: shows the loading state, issues
\* the create-session fetch and suspends on it
OpenAcquire ==
    /\ setup = "done"
    /\ LacksSession(GetPersonalizationSession(storage, config.productId))
    /\ creating < MaxCreating
    /\ ShowLoading
    /\ creating' = creating + 1
    /\ event' = [Event("openCustomizer", "pending") EXCEPT !.fetch = "create-session"]
    /\ UNCHANGED << objectVars, readyState, setup, setupRuns, storage, iframeSrc,
                    iframeOnload, loadPending, timers, confirming, form, lastMsg,
                    msgSeq >>

\* What a fetch comes back with: it rejects (sent = FALSE), or a response
\* with its ok flag and, for create-session, the sessionUuid of its body
\* ("" = the body has none)
Response(sent, ok, sessionUuid) ==
    [sent |-> sent, ok |-> ok, sessionUuid |-> sessionUuid]

\* _createPersonalizationSession returns a session rather than throwing
CreateSucceeds(response) ==
    response.sent /\ response.ok /\ response.sessionUuid # ""

\* The create-session fetch answers 2xx with a sessionUuid: the session is
\* saved and openCustomizer goes on to load the iframe
CreateSessionOk(response) ==
    /\ creating > 0
    /\ CreateSucceeds(response)
    /\ timers < MaxTimers
    /\ creating' = creating - 1
    /\ storage' = SavePersonalizationSession(storage, config.productId,
                      NewSession(response.sessionUuid, config, hostname))
    /\ StartLoading(response.sessionUuid)
    /\ event' = Event("createSessionOk", "resolved")
    /\ UNCHANGED << objectVars, readyState, setup, setupRuns, modalActive,
                    iframeDisplay, loadingDisplay, confirming, form, lastMsg,
                    msgSeq >>

\* The catch block without its closeCustomizer call: the modal stays as it is
CreateSessionFailStaysOpen(response) ==
    /\ creating > 0
    /\ ~CreateSucceeds(response)
    /\ creating' = creating - 1
    /\ event' = [Event("createSessionFail", "resolved") EXCEPT !.alert = TRUE]
    /\ UNCHANGED << objectVars, readyState, setup, setupRuns, storage, surfaceVars,
                    confirming, form, lastMsg, msgSeq >>

\* The create-session call fails (the fetch rejects, the response is not
\* 2xx, or its body has no sessionUuid): _createPersonalizationSession
\* rethrows, openCustomizer catches, alerts and closes; its promise resolves
CreateSessionFail(response) ==
    /\ creating > 0
    /\ ~CreateSucceeds(response)
    /\ creating' = creating - 1
    /\ CloseSurface
    /\ event' = [Event("createSessionFail", "resolved") EXCEPT
                    !.alert = TRUE,
                    !.close = config.onPersonalizationClose]
    /\ UNCHANGED << objectVars, readyState, setup, setupRuns, storage,
                    iframeDisplay, loadingDisplay, iframeOnload, timers,
                    confirming, form, lastMsg, msgSeq >>

\* closeCustomizer
CloseCustomizer ==
    /\ IF setup = "done"
       THEN /\ CloseSurface
            /\ event' = [Event("closeCustomizer", "undefined") EXCEPT
                            !.close = config.onPersonalizationClose]
       ELSE /\ UNCHANGED << modalActive, iframeSrc, loadPending >>
            /\ event' = Event("closeCustomizer", "undefined")
    /\ UNCHANGED << objectVars, readyState, setup, setupRuns, storage,
                    iframeDisplay, loadingDisplay, iframeOnload, timers, creating,
                    confirming, form, lastMsg, msgSeq >>

\* The iframe fires "load": iframe.onload reveals the iframe, and every
\* once-listener clears its timer
IframeLoad ==
    /\ loadPending
    /\ loadPending' = FALSE
    /\ IF iframeOnload
       THEN loadingDisplay' = "none" /\ iframeDisplay' = "block"
       ELSE UNCHANGED << loadingDisplay, iframeDisplay >>
    /\ timers' = 0
    /\ event' = Event("iframeLoad", "")
    /\ UNCHANGED << objectVars, readyState, setup, setupRuns, storage, modalActive,
                    iframeSrc, iframeOnload, creating, confirming, form, lastMsg,
                    msgSeq >>

\* The timer callback without its body: the timer expires and shows nothing
LoadTimeoutIdle ==
    /\ timers > 0
    /\ timers' = timers - 1
    /\ event' = Event("loadTimeout", "")
    /\ UNCHANGED << objectVars, readyState, setup, setupRuns, storage, modalActive,
                    iframeDisplay, loadingDisplay, iframeSrc, iframeOnload,
                    loadPending, creating, confirming, form, lastMsg, msgSeq >>

\* A load timer fires after 10 seconds
LoadTimeout ==
    /\ timers > 0
    /\ timers' = timers - 1
    /\ IF loadingDisplay # "none"
       THEN loadingDisplay' = "none" /\ iframeDisplay' = "block"
       ELSE UNCHANGED << loadingDisplay, iframeDisplay >>
    /\ event' = Event("loadTimeout", "")
    /\ UNCHANGED << objectVars, readyState, setup, setupRuns, storage, modalActive,
                    iframeSrc, iframeOnload, loadPending, creating, confirming,
                    form, lastMsg, msgSeq >>

-----------------------------------------------------------------------------
(* _handleIframeMessage *)

\* s.startsWith(prefix), origins being sequences of their parts
StartsWith(s, prefix) ==
    /\ Len(s) >= Len(prefix)
    /\ SubSeq(s, 1, Len(prefix)) = prefix

allowedOrigins ==
    { <<"https://treatink.com">>,
      <<"https://sandbox.treatink.com">>,
      <<"http://localhost:5173">>,
      <<"http://localhost:3000">>,
      <<"http://localhost:8080">> }

\* The origin check without its early return: every origin passes
IsAllowedOriginUnchecked(origin) == TRUE

IsAllowedOrigin(origin) ==
    \E allowed \in allowedOrigins : origin = allowed \/ StartsWith(origin, allowed)

MsgComplete == "treatink_personalization_complete"
MsgCancel == "treatink_personalization_cancel"
MsgClose == "treatink_close_modal"
MsgError == "treatink_personalization_error"

\* The message types that make the handler close the modal
ClosingTypes == {MsgComplete, MsgCancel, MsgClose, MsgError}

\* The completion branch also taken for a cancellation
StorageAfterMessageOrCancel(item, productId, data) ==
    IF data.type \in {MsgComplete, MsgCancel}
    THEN UpdatePersonalizationSession(item, productId, data.payload)
    ELSE item

\* The storage after the handler has processed a message of an allowed origin
StorageAfterMessage(item, productId, data) ==
    IF data.type = MsgComplete
    THEN UpdatePersonalizationSession(item, productId, data.payload)
    ELSE item

\* Whether the handler calls config.onPersonalizationComplete for a message
\* of an allowed origin
FiresComplete(cfg, data) ==
    data.type = MsgComplete /\ cfg.onPersonalizationComplete

\* A message event reaches the window's listener; data.type "" is a message
\* without a type (or without data)
HandleIframeMessage(origin, data) ==
    /\ setup = "done"
    /\ msgSeq' = 1 - msgSeq
    /\ IF ~IsAllowedOrigin(origin) \/ data.type = ""
       THEN /\ event' = Event("message", "dropped")
            /\ UNCHANGED << storage, modalActive, iframeSrc, loadPending >>
       ELSE /\ storage' = StorageAfterMessage(storage, config.productId, data)
            /\ IF data.type \in ClosingTypes
               THEN /\ CloseSurface
                    /\ event' = [Event("message", "handled") EXCEPT
                                    !.complete = FiresComplete(config, data),
                                    !.close = config.onPersonalizationClose,
                                    !.alert = (data.type = MsgError)]
               ELSE /\ UNCHANGED << modalActive, iframeSrc, loadPending >>
                    /\ event' = Event("message", "ignored")
    /\ lastMsg' = [origin |-> origin, type |-> data.type, payload |-> data.payload,
                   fired |-> event'.complete]
    /\ UNCHANGED << objectVars, readyState, setup, setupRuns, iframeDisplay,
                    loadingDisplay, iframeOnload, timers, creating, confirming,
                    form >>

-----------------------------------------------------------------------------
(* clearPersonalizations and confirmOrder *)

ClearPersonalizations ==
    /\ storage' = ClearedStorage
    /\ event' = Event("clearPersonalizations", "undefined")
    /\ UNCHANGED << objectVars, readyState, setup, setupRuns, surfaceVars, creating,
                    confirming, form, lastMsg, msgSeq >>

\* Every stored session is reported, customized or not
AllItems(personalizations) ==
    { [uuid |-> personalizations[p].uuid, productId |-> personalizations[p].productId] :
        p \in DOMAIN personalizations }

\* Object.values(personalizations).filter(p => p.customized).map(...)
PersonalizedItems(personalizations) ==
    { [uuid |-> personalizations[p].uuid, productId |-> personalizations[p].productId] :
        p \in {q \in DOMAIN personalizations : personalizations[q].customized} }

\* confirmOrder before init: this.config is null, the promise is rejected
ConfirmWithoutConfig ==
    /\ ~initialized
    /\ event' = Event("confirmOrder", "rejected")
    /\ UNCHANGED << objectVars, readyState, setup, setupRuns, storage, surfaceVars,
                    creating, confirming, form, lastMsg, msgSeq >>

\* The API key is not looked at: only an empty list returns early
ReturnsNullKeyUnchecked(cfg, item) ==
    PersonalizedItems(GetAllPersonalizations(item)) = {}

\* confirmOrder's two early returns: !this.config.apiKey, and
\* personalizedItems.length === 0
ReturnsNull(cfg, item) ==
    \/ cfg.apiKey = ""
    \/ PersonalizedItems(GetAllPersonalizations(item)) = {}

\* confirmOrder that returns null: no API key, or nothing personalized
ConfirmNothing ==
    /\ initialized
    /\ ReturnsNull(config, storage)
    /\ event' = Event("confirmOrder", "null")
    /\ UNCHANGED << objectVars, readyState, setup, setupRuns, storage, surfaceVars,
                    creating, confirming, form, lastMsg, msgSeq >>

\* confirmOrder that issues the external-order fetch and suspends on it; the
\* request carries personalizedItems
ConfirmSend ==
    /\ initialized
    /\ ~ReturnsNull(config, storage)
    /\ Len(confirming) < MaxConfirming
    /\ confirming' = Append(confirming,
           [personalizations |-> PersonalizedItems(GetAllPersonalizations(storage))])
    /\ event' = [Event("confirmOrder", "pending") EXCEPT !.fetch = "external-order"]
    /\ UNCHANGED << objectVars, readyState, setup, setupRuns, storage, surfaceVars,
                    creating, form, lastMsg, msgSeq >>

\* confirmOrder returns the result rather than throwing
ConfirmSucceeds(response) ==
    response.sent /\ response.ok

\* The sequence without its i-th element
Without(seq, i) ==
    SubSeq(seq, 1, i - 1) \o SubSeq(seq, i + 1, Len(seq))

\* Only the sessions that were reported are removed
StorageWithoutCustomized(item) ==
    IF item.kind # "json" THEN item
    ELSE LET kept == {p \in DOMAIN item.sessions : ~item.sessions[p].customized}
         IN  IF kept = {} THEN ClearedStorage
             ELSE JsonItem([p \in kept |-> item.sessions[p]])

\* The storage once a confirmOrder call has got its 2xx answer
StorageAfterConfirm(item) == ClearedStorage

\* The store is cleared in a finally block, on failure too
StorageClearedAnyway(item) == ClearedStorage

\* The storage once a confirmOrder call has failed
StorageAfterConfirmFailure(item) == item

\* The external-order fetch answers 2xx: the store is cleared and the result
\* returned
ConfirmOrderOk(i, response) ==
    /\ i \in 1..Len(confirming)
    /\ ConfirmSucceeds(response)
    /\ confirming' = Without(confirming, i)
    /\ storage' = StorageAfterConfirm(storage)
    /\ event' = Event("confirmOrderOk", "resolved")
    /\ UNCHANGED << objectVars, readyState, setup, setupRuns, surfaceVars, creating,
                    form, lastMsg, msgSeq >>

\* The external-order call fails (the fetch rejects or the response is not
\* 2xx): the error is rethrown to the caller
ConfirmOrderFail(i, response) ==
    /\ i \in 1..Len(confirming)
    /\ ~ConfirmSucceeds(response)
    /\ confirming' = Without(confirming, i)
    /\ storage' = StorageAfterConfirmFailure(storage)
    /\ event' = Event("confirmOrderFail", "rejected")
    /\ UNCHANGED << objectVars, readyState, setup, setupRuns, surfaceVars, creating,
                    form, lastMsg, msgSeq >>

-----------------------------------------------------------------------------
(* The purchase form: _interceptAddToCart, _addPersonalizationToCart and    *)
(* the three platform adapters                                              *)

\* personalizationData of _addPersonalizationToCart
PersonalizationData(session, cfg, host) ==
    [uuid |-> session.uuid, productId |-> cfg.productId, hostname |-> host,
     timestamp |-> "t"]

\* The note line, as its parts joined by ":" and "|"
ShopifyNote(data) ==
    << "TreatInk-UUID", data.uuid, "ProductID", data.productId,
       "Hostname", data.hostname >>

\* The note field's value is its lines; an empty value has none
AddToShopifyCart(f, data) ==
    IF f.hasNote
    THEN [f EXCEPT !.note = Append(f.note, ShopifyNote(data))]
    ELSE [f EXCEPT !.hasNote = TRUE, !.note = << ShopifyNote(data) >>]

AddToWooCommerceCart(f, data) ==
    [f EXCEPT !.inputs = Append(f.inputs,
        [name |-> "treatink_uuid", value |-> << data.uuid >>])]

\* JSON.stringify(data), as the values of its keys in order
AddToGenericCart(f, data) ==
    [f EXCEPT !.inputs = Append(f.inputs,
        [name |-> "treatink_personalization",
         value |-> << data.uuid, data.productId, data.hostname, data.timestamp >>])]

\* The platform is not looked at: every shop gets the generic hidden input
AddPersonalizationGenericOnly(f, session, cfg, host) ==
    AddToGenericCart(f, PersonalizationData(session, cfg, host))

AddPersonalizationToCart(f, session, cfg, host) ==
    LET data == PersonalizationData(session, cfg, host)
    IN  IF cfg.platform = "shopify" THEN AddToShopifyCart(f, data)
        ELSE IF cfg.platform = "woocommerce" THEN AddToWooCommerceCart(f, data)
        ELSE AddToGenericCart(f, data)

\* The listener without its customized check: any stored session is injected
FormAfterSubmitUnchecked(f, item, cfg, host) ==
    LET session == GetPersonalizationSession(item, cfg.productId)
    IN  IF session = Null THEN f
        ELSE AddPersonalizationToCart(f, session, cfg, host)

\* The form after its submit listener has run
FormAfterSubmit(f, item, cfg, host) ==
    LET session == GetPersonalizationSession(item, cfg.productId)
    IN  IF session = Null THEN f
        ELSE IF ~session.customized THEN f
        ELSE AddPersonalizationToCart(f, session, cfg, host)

\* How many lines and hidden inputs the form holds
Injected(f) == Len(f.note) + Len(f.inputs)

\* The purchase form is submitted and the interceptor's listener runs
SubmitForm ==
    /\ setup = "done"
    /\ form.exists
    /\ Injected(form) < MaxInjected
    /\ form' = FormAfterSubmit(form, storage, config, hostname)
    /\ event' = Event("submit", IF form' = form THEN "unchanged" ELSE "injected")
    /\ UNCHANGED << objectVars, readyState, setup, setupRuns, storage, surfaceVars,
                    creating, confirming, lastMsg, msgSeq >>

-----------------------------------------------------------------------------
(* Inputs *)

\* Origins a message may come from: the production surface, an origin that
\* merely begins like it, the sandbox surface, a foreign page
TreatinkOrigin == <<"https://treatink.com">>
LookalikeOrigin == <<"https://treatink.com", ".evil.example">>
StagingOrigin == <<"https://staging.treatink.com">>
EvilOrigin == <<"https://evil.example">>

\* What the create-session fetch may come back with
CreateResponses ==
    { Response(FALSE, FALSE, ""), Response(TRUE, FALSE, ""), Response(TRUE, TRUE, "") }
    \cup { Response(TRUE, TRUE, uuid) : uuid \in Uuids }

\* What the external-order fetch may come back with
ConfirmResponses ==
    { Response(FALSE, FALSE, ""), Response(TRUE, FALSE, ""), Response(TRUE, TRUE, "") }

Payload(uuid, data) == [sessionUuid |-> uuid, data |-> data]

\* event.data of a message
Data(type, payload) == [type |-> type, payload |-> payload]

\* Messages with each type, a completion carrying each payload
DataOver(types, payloads) ==
    { Data(t, Undefined) : t \in types \ {MsgComplete} }
    \cup { Data(MsgComplete, pl) : pl \in IF MsgComplete \in types THEN payloads ELSE {} }

\* A session as an earlier page view of the same shop stored it
StoredSession(productId, uuid) ==
    [uuid |-> uuid, productId |-> productId, platform |-> "shopify",
     hostname |-> PageHostname, createdAt |-> "t", customized |-> FALSE]

\* The storage an earlier page view left, with one session, customized or not
StoredOne(productId, uuid, customized) ==
    LET created == SavePersonalizationSession(NoItem, productId,
                       StoredSession(productId, uuid))
    IN  IF customized
        THEN UpdatePersonalizationSession(created, productId, Payload(uuid, "d1"))
        ELSE created

\* The storage an earlier page view left, with a session of each product
StoredTwo(customized1, customized2) ==
    LET one == StoredOne("p1", "u1", customized1)
        two == SavePersonalizationSession(one, "p2", StoredSession("p2", "u2"))
    IN  IF customized2
        THEN UpdatePersonalizationSession(two, "p2", Payload("u2", "d1"))
        ELSE two

\* The purchase form of the page: absent, without a note field, with an
\* empty one, with one the shopper has written a line in
NoForm == [exists |-> FALSE, hasNote |-> FALSE, note |-> << >>, inputs |-> << >>]
PlainForm == [exists |-> TRUE, hasNote |-> FALSE, note |-> << >>, inputs |-> << >>]
EmptyNoteForm == [exists |-> TRUE, hasNote |-> TRUE, note |-> << >>, inputs |-> << >>]
NotedForm == [exists |-> TRUE, hasNote |-> TRUE, note |-> << <<"gift wrap">> >>,
              inputs |-> << >>]

\* The page as the script finds it when it is evaluated
InitWith(storages, forms) ==
    /\ initialized = FALSE
    /\ config = NoConfig
    /\ hostname = ""
    /\ environment = "production"
    /\ readyState \in {"loading", "complete"}
    /\ setup = "none"
    /\ setupRuns = 0
    /\ storage \in storages
    /\ modalActive = FALSE
    /\ iframeDisplay = "none"
    /\ loadingDisplay = ""
    /\ iframeSrc = NoSrc
    /\ iframeOnload = FALSE
    /\ loadPending = FALSE
    /\ timers = 0
    /\ creating = 0
    /\ confirming = << >>
    /\ form \in forms
    /\ lastMsg = NoMsg
    /\ msgSeq = 0
    /\ event = Event("load", "")

-----------------------------------------------------------------------------
(* The surface lifecycle: one product page, its modal, the create-session  *)
(* calls in flight, and the messages of the surface and of other windows    *)

SurfaceStorages ==
    { NoItem, Malformed, StoredOne("p2", "u2", TRUE) }

SurfaceOptions ==
    Options({"shopify"}, {"p1", ""}, {"key"}, {""}, {TRUE})

SurfaceOrigins == {TreatinkOrigin, LookalikeOrigin, StagingOrigin, EvilOrigin}

SurfaceData ==
    DataOver({MsgComplete, MsgCancel, MsgClose, MsgError, "other", ""},
             {Undefined, Payload("u1", "d1"), Payload("u2", "d1")})

Init == InitWith(SurfaceStorages, {PlainForm})

Next ==
    \/ \E options \in SurfaceOptions : InitOk(options) \/ InitInvalid(options)
    \/ DOMContentLoaded
    \/ OpenWithSession
    \/ OpenAcquire
    \/ \E response \in CreateResponses :
          CreateSessionOk(response) \/ CreateSessionFail(response)
    \/ CloseCustomizer
    \/ IframeLoad
    \/ LoadTimeout
    \/ \E origin \in SurfaceOrigins, data \in SurfaceData :
          HandleIframeMessage(origin, data)
    \/ ClearPersonalizations

Spec == Init /\ [][Next]_vars

-----------------------------------------------------------------------------
(* Properties of the surface lifecycle *)

\* The store holds a session of the product that is marked customized
StoredCustomized(item, productId) ==
    LET session == GetPersonalizationSession(item, productId)
    IN  IF session = Null THEN FALSE ELSE session.customized

\* The store holds a session of the product that is not marked customized
StoredUncustomized(item, productId) ==
    LET session == GetPersonalizationSession(item, productId)
    IN  IF session = Null THEN FALSE ELSE ~session.customized

\* The origin neither equals nor starts with an allow-listed origin
NotAllowListed(origin) ==
    \A allowed \in allowedOrigins : origin # allowed /\ ~StartsWith(origin, allowed)

\* The step delivers a message event
MessageStep == msgSeq' # msgSeq

\* C1: a stored session that is customized stays customized across every
\* turn other than clearPersonalizations and a successful confirmOrder.
C1_CustomizedStaysTrue ==
    [][ \A p \in ProductIds :
          (StoredCustomized(storage, p)
             /\ event'.op \notin {"clearPersonalizations", "confirmOrderOk"})
          => StoredCustomized(storage', p) ]_vars

\* C2: while an openCustomizer attempt waits for its create-session answer
\* and the store holds no session of the product, no turn makes the iframe
\* visible to the user.
C2_NotRevealedWhileAcquiring ==
    [][ (creating > 0
           /\ storage'.kind # "malformed"
           /\ LacksSession(GetPersonalizationSession(storage', config.productId)))
        => (SurfaceVisible' => SurfaceVisible) ]_vars

\* The message is a completion from an allow-listed origin
IsCompletion(msg) ==
    msg.type = MsgComplete /\ ~NotAllowListed(msg.origin)

\* C3: when a completion message follows a completion message that carried
\* the identical payload and for which onPersonalizationComplete was called,
\* the callback is not called again.
C3_NoSecondCallback ==
    [][ (MessageStep
           /\ IsCompletion(lastMsg) /\ lastMsg.fired
           /\ IsCompletion(lastMsg') /\ lastMsg'.payload = lastMsg.payload)
        => ~event'.complete ]_vars

\* C6: a message whose origin is not allow-listed changes neither the store
\* nor the surface nor anything in flight, and calls neither callback.
C6_ForeignOriginDropped ==
    [][ (MessageStep /\ NotAllowListed(lastMsg'.origin))
        => /\ storage' = storage
           /\ surfaceVars' = surfaceVars
           /\ << creating, confirming, form >>' = << creating, confirming, form >>
           /\ ~event'.complete
           /\ ~event'.close ]_vars

\* C6 happens: a well-formed completion from a foreign origin has just been
\* delivered while the modal is open and an uncustomized session is stored
C6_Witness ==
    /\ event.op = "message"
    /\ lastMsg.origin = EvilOrigin
    /\ lastMsg.type = MsgComplete
    /\ lastMsg.payload = Payload("u1", "d1")
    /\ modalActive
    /\ StoredUncustomized(storage, config.productId)

\* C7: an allow-listed message that is not a completion leaves the store
\* unchanged and does not call onPersonalizationComplete; one whose type is
\* unrecognized or missing also leaves the surface unchanged and calls
\* nothing.
C7_OnlyCompletionWrites ==
    [][ (MessageStep /\ ~NotAllowListed(lastMsg'.origin) /\ lastMsg'.type # MsgComplete)
        => /\ storage' = storage
           /\ ~event'.complete
           /\ lastMsg'.type \notin {MsgCancel, MsgClose, MsgError}
                => /\ surfaceVars' = surfaceVars
                   /\ ~event'.close ]_vars

\* C7 happens: a message of unrecognized type from the surface's origin has
\* just been delivered while the modal is open and an uncustomized session is
\* stored
C7_Witness ==
    /\ event.op = "message"
    /\ lastMsg.origin = TreatinkOrigin
    /\ lastMsg.type = "other"
    /\ modalActive
    /\ StoredUncustomized(storage, config.productId)

\* C7 happens for a cancellation too
C7_WitnessCancel ==
    /\ event.op = "message"
    /\ lastMsg.origin = TreatinkOrigin
    /\ lastMsg.type = MsgCancel
    /\ StoredUncustomized(storage, config.productId)

C15_MalformedTreatedAsAbsent ==
    [][ storage = Malformed
        => /\ GetPersonalizationSession(storage, config.productId) = Null
           /\ GetAllPersonalizations(storage) = << >>
           /\ event'.op = "createSessionOk"
                => GetPersonalizationSession(storage', config.productId)
                     = NewSession(iframeSrc'.uuid, config, hostname) ]_vars

\* The modal is closed as closeCustomizer leaves it
SurfaceClosed == ~modalActive /\ iframeSrc = AboutBlank

\* C16: a completion or error message of an allow-listed origin that is
\* delivered while the modal is closed leaves the store as it was, does not
\* call onPersonalizationComplete and does not run closeCustomizer again.
C16_LateMessageIgnored ==
    [][ (MessageStep /\ SurfaceClosed
           /\ ~NotAllowListed(lastMsg'.origin)
           /\ lastMsg'.type \in {MsgComplete, MsgError})
        => /\ storage' = storage
           /\ ~event'.complete
           /\ ~event'.close ]_vars

\* C17: from closeCustomizer on, the iframe stays at about:blank in every
\* turn that is not an openCustomizer call, the continuation of a call that
\* was waiting for its create-session answer included.
C17_BlankUntilNextOpen ==
    [][ (SurfaceClosed /\ event'.op # "openCustomizer")
        => iframeSrc' = AboutBlank ]_vars

\* C19: a stored session stays stored, under the same uuid, across every
\* turn other than clearPersonalizations and a successful confirmOrder.
C19_EntryKeptUntilConfirmOrClear ==
    [][ \A p \in ProductIds :
          (GetPersonalizationSession(storage, p) # Null
             /\ event'.op \notin {"clearPersonalizations", "confirmOrderOk"})
          => /\ GetPersonalizationSession(storage', p) # Null
             /\ GetPersonalizationSession(storage', p).uuid
                  = GetPersonalizationSession(storage, p).uuid ]_vars

\* The session holds a customization payload
HasPayload(session) == "customizationData" \in DOMAIN session

\* C20: every stored session holds a customization payload exactly when it
\* is marked customized.
C20_PayloadIffCustomized ==
    \A p \in ProductIds :
       LET session == GetPersonalizationSession(storage, p)
       IN  session # Null => (HasPayload(session) <=> session.customized)

\* C24: whenever a turn has called onPersonalizationComplete, the store
\* holds a customized session of the configured product.
C24_CallbackOnlyWithSession ==
    event.complete => StoredCustomized(storage, config.productId)

\* C25: a completion message whose payload names another session than the
\* one stored for the product leaves the store as it was.
C25_OnlyMatchingSessionMarked ==
    [][ (MessageStep
           /\ IsCompletion(lastMsg')
           /\ GetPersonalizationSession(storage, config.productId) # Null)
        => \/ lastMsg'.payload.sessionUuid
                = GetPersonalizationSession(storage, config.productId).uuid
           \/ storage' = storage ]_vars

-----------------------------------------------------------------------------
(* The order confirmation page: the sessions earlier pages stored, their    *)
(* completion, and confirmOrder with its answer                             *)

ConfirmStorages ==
    { NoItem, Malformed, StoredOne("p1", "u1", FALSE), StoredOne("p1", "u1", TRUE),
      StoredTwo(TRUE, FALSE), StoredTwo(FALSE, TRUE), StoredTwo(TRUE, TRUE) }

ConfirmOptions ==
    Options({"shopify"}, {"p1", ""}, {"key", ""}, {""}, {TRUE})

ConfirmData ==
    DataOver({MsgComplete, MsgCancel}, {Payload("u1", "d1")})

InitConfirm == InitWith(ConfirmStorages, {NoForm})

NextConfirm ==
    \/ \E options \in ConfirmOptions : InitOk(options) \/ InitInvalid(options)
    \/ DOMContentLoaded
    \/ OpenWithSession
    \/ OpenAcquire
    \/ \E response \in CreateResponses :
          CreateSessionOk(response) \/ CreateSessionFail(response)
    \/ CloseCustomizer
    \/ IframeLoad
    \/ LoadTimeout
    \/ \E data \in ConfirmData : HandleIframeMessage(TreatinkOrigin, data)
    \/ ClearPersonalizations
    \/ ConfirmWithoutConfig
    \/ ConfirmNothing
    \/ ConfirmSend
    \/ \E i \in 1..MaxConfirming, response \in ConfirmResponses :
          ConfirmOrderOk(i, response) \/ ConfirmOrderFail(i, response)

SpecConfirm == InitConfirm /\ [][NextConfirm]_vars

\* C9: when a confirmOrder call has just got its 2xx answer, the store holds
\* no entry at all.
C9_StoreEmptyAfterConfirm ==
    event.op = "confirmOrderOk"
    => /\ GetAllPersonalizations(storage) = << >>
       /\ storage = NoItem

\* C9 happens: a confirmOrder call has just succeeded
C9_Witness ==
    /\ event.op = "confirmOrderOk"
    /\ event.result = "resolved"
    /\ confirming = << >>

\* C10: a failing confirmOrder call rejects and leaves the store as it was,
\* so the customized sessions a retry reports are those the store held when
\* the failure arrived.
C10_FailureKeepsStore ==
    [][ event'.op = "confirmOrderFail"
        => /\ storage' = storage
           /\ event'.result = "rejected"
           /\ PersonalizedItems(GetAllPersonalizations(storage'))
                = PersonalizedItems(GetAllPersonalizations(storage)) ]_vars

\* C10 happens: a confirmOrder call has just failed and the store still holds
\* customized sessions to report
C10_Witness ==
    /\ event.op = "confirmOrderFail"
    /\ event.result = "rejected"
    /\ PersonalizedItems(GetAllPersonalizations(storage)) # {}

\* The store holds no session that is marked customized
NoneCustomized(item) ==
    \A p \in ProductIds : ~StoredCustomized(item, p)

\* C11: a confirmOrder call made while the store holds no customized session
\* issues no fetch and leaves the store and the calls in flight as they were;
\* once the SDK is initialized it returns null rather than throwing.
C11_NothingToConfirm ==
    [][ (event'.op = "confirmOrder" /\ NoneCustomized(storage))
        => /\ event'.fetch = "none"
           /\ storage' = storage
           /\ confirming' = confirming
           /\ initialized => event'.result = "null" ]_vars

\* C11 happens: confirmOrder has just returned null with an API key
\* configured, the store holding a session that is not customized
C11_Witness ==
    /\ event.op = "confirmOrder"
    /\ event.result = "null"
    /\ config.apiKey = "key"
    /\ storage = StoredOne("p1", "u1", FALSE)

\* C12: a confirmOrder call made without a configured API key fails (it
\* returns null, or throws when there is no configuration at all), issues
\* no fetch, and leaves the store and the calls in flight as they were,
\* whatever the store holds.
C12_NoCredentialFails ==
    [][ (event'.op = "confirmOrder" /\ config.apiKey = "")
        => /\ event'.result = (IF initialized THEN "null" ELSE "rejected")
           /\ event'.fetch = "none"
           /\ storage' = storage
           /\ confirming' = confirming ]_vars

\* C12 happens: confirmOrder has just returned null for want of an API key
\* while the store holds customized sessions
C12_Witness ==
    /\ event.op = "confirmOrder"
    /\ event.result = "null"
    /\ initialized
    /\ config.apiKey = ""
    /\ ~NoneCustomized(storage)

\* C22: every customized session that a successful confirmOrder removes
\* from the store is in the personalizations list its request carried.
C22_ClearedSessionsWereReported ==
    [][ event'.op = "confirmOrderOk"
        => \E i \in 1..Len(confirming) :
              /\ confirming' = Without(confirming, i)
              /\ \A p \in ProductIds :
                    (StoredCustomized(storage, p) /\ ~StoredCustomized(storage', p))
                    => LET session == GetPersonalizationSession(storage, p)
                       IN  [uuid |-> session.uuid, productId |-> session.productId]
                             \in confirming[i].personalizations ]_vars

-----------------------------------------------------------------------------
(* The product page's purchase form: sessions created and completed through *)
(* the surface, and the form submitted any number of times                  *)

CartStorages ==
    { NoItem, Malformed, StoredOne("p1", "u1", FALSE), StoredOne("p1", "u1", TRUE) }

CartOptions ==
    Options({"shopify", "woocommerce", "custom"}, {"p1", ""}, {"key"}, {""}, {TRUE})

CartForms == {PlainForm, EmptyNoteForm, NotedForm}

CartData ==
    DataOver({MsgComplete, MsgCancel}, {Payload("u1", "d1")})

InitCart == InitWith(CartStorages, CartForms)

NextCart ==
    \/ \E options \in CartOptions : InitOk(options) \/ InitInvalid(options)
    \/ DOMContentLoaded
    \/ OpenWithSession
    \/ OpenAcquire
    \/ \E response \in CreateResponses :
          CreateSessionOk(response) \/ CreateSessionFail(response)
    \/ CloseCustomizer
    \/ IframeLoad
    \/ LoadTimeout
    \/ \E data \in CartData : HandleIframeMessage(TreatinkOrigin, data)
    \/ ClearPersonalizations
    \/ SubmitForm

SpecCart == InitCart /\ [][NextCart]_vars

\* What the adapters inject for a session: the note line, the raw uuid, the
\* serialized reference
ReferencesTo(uuid) ==
    LET data == [uuid |-> uuid, productId |-> config.productId,
                 hostname |-> hostname, timestamp |-> "t"]
    IN  { ShopifyNote(data) } \cup { << uuid >> }
          \cup { << data.uuid, data.productId, data.hostname, data.timestamp >> }

\* How many references to the session the form holds: note lines and hidden
\* inputs
InjectedReferences(f, uuid) ==
    Cardinality({i \in 1..Len(f.note) : f.note[i] \in ReferencesTo(uuid)})
    + Cardinality({i \in 1..Len(f.inputs) : f.inputs[i].value \in ReferencesTo(uuid)})

\* C4: however often the form has been submitted, it holds at most one
\* injected reference to a session.
C4_InjectedOnce ==
    \A uuid \in Uuids : InjectedReferences(form, uuid) <= 1

\* C5: a submission while the store holds no session of the product, or one
\* that is not customized, leaves the form as it was.
C5_NothingInjectedUnlessCustomized ==
    [][ (event'.op = "submit" /\ ~StoredCustomized(storage, config.productId))
        => form' = form ]_vars

\* C5 happens: the form has just been submitted while the stored session is
\* not customized, and holds nothing injected
C5_Witness ==
    /\ event.op = "submit"
    /\ StoredUncustomized(storage, config.productId)
    /\ form \in CartForms

\* C5 happens with no session stored, too
C5_WitnessAbsent ==
    /\ event.op = "submit"
    /\ GetPersonalizationSession(storage, config.productId) = Null
    /\ form \in CartForms

\* The form after a submission that injected the session, given the note
\* line a Shopify form gets: the line is appended to the note field's lines,
\* or a note field holding it is created; a WooCommerce form gets a hidden
\* input holding the uuid alone; any other form gets one holding the whole
\* serialized reference
FormInjectedWith(f, line, uuid) ==
    IF config.platform = "shopify"
    THEN [f EXCEPT !.hasNote = TRUE, !.note = f.note \o << line >>]
    ELSE IF config.platform = "woocommerce"
    THEN [f EXCEPT !.inputs = f.inputs \o
             << [name |-> "treatink_uuid", value |-> << uuid >>] >>]
    ELSE [f EXCEPT !.inputs = f.inputs \o
             << [name |-> "treatink_personalization",
                 value |-> << uuid, config.productId, hostname, "t" >>] >>]

\* C21 as stated: a submission while the product's stored session is
\* customized injects that session's uuid through the adapter of the
\* configured platform, the Shopify note line being
\* ID:<uuid>|Product:<productId>|Host:<hostname>.
C21_AdapterByPlatform ==
    [][ (event'.op = "submit" /\ StoredCustomized(storage, config.productId))
        => LET uuid == GetPersonalizationSession(storage, config.productId).uuid
           IN  form' = FormInjectedWith(form,
                          << "ID", uuid, "Product", config.productId,
                             "Host", hostname >>, uuid) ]_vars

\* C21 amended: the same, the Shopify note line being
\* TreatInk-UUID:<uuid>|ProductID:<productId>|Hostname:<hostname>.
C21_AdapterByPlatformLabelled ==
    [][ (event'.op = "submit" /\ StoredCustomized(storage, config.productId))
        => LET uuid == GetPersonalizationSession(storage, config.productId).uuid
           IN  form' = FormInjectedWith(form,
                          << "TreatInk-UUID", uuid, "ProductID", config.productId,
                             "Hostname", hostname >>, uuid) ]_vars

\* C21 happens: a Shopify form whose note field held a line of the shopper
\* has just been submitted and holds that line followed by the note line
C21_Witness ==
    /\ event.op = "submit"
    /\ event.result = "injected"
    /\ config.platform = "shopify"
    /\ Len(form.note) = 2
    /\ form.note[1] = << "gift wrap" >>
    /\ form.note[2][2] = GetPersonalizationSession(storage, config.productId).uuid

\* C21 happens for a WooCommerce form too
C21_WitnessWooCommerce ==
    /\ event.op = "submit"
    /\ event.result = "injected"
    /\ config.platform = "woocommerce"
    /\ Len(form.inputs) = 1
    /\ form.inputs[1].name = "treatink_uuid"

-----------------------------------------------------------------------------
(* Initialization: init called any number of times with options of every    *)
(* shape, before and after the document is ready, and the first use of the  *)
(* surface                                                                  *)

InitStorages ==
    { NoItem, StoredOne("p1", "u1", FALSE) }

InitOptions ==
    Options({"Shopify", ""}, {"p1", "p2", ""}, {"key"}, {"", "sandbox"}, {TRUE})

\* The origins of the two customizer URLs of TREATINK_CONFIG
InitOrigins == {TreatinkOrigin, StagingOrigin}

InitData ==
    DataOver({MsgComplete}, {Payload("u1", "d1")})

InitInit == InitWith(InitStorages, {NoForm})

NextInit ==
    \/ \E options \in InitOptions :
          InitOk(options) \/ InitInvalid(options) \/ InitAgain(options)
    \/ DOMContentLoaded
    \/ OpenWithoutModal
    \/ OpenWithSession
    \/ OpenAcquire
    \/ \E response \in CreateResponses :
          CreateSessionOk(response) \/ CreateSessionFail(response)
    \/ CloseCustomizer
    \/ IframeLoad
    \/ LoadTimeout
    \/ \E origin \in InitOrigins, data \in InitData :
          HandleIframeMessage(origin, data)

SpecInit == InitInit /\ [][NextInit]_vars

\* C13: once init has succeeded, every further init call returns undefined
\* and leaves the configuration, the hostname, the environment, the
\* initialized flag, the setup, the store and the surface as they were; and
\* _setup never runs a second time.
C13_SecondInitIsNoOp ==
    [][ /\ setupRuns' <= 1
        /\ (initialized /\ event'.op = "init")
           => /\ event'.result = "undefined"
              /\ objectVars' = objectVars
              /\ << setup, setupRuns >>' = << setup, setupRuns >>
              /\ storage' = storage
              /\ surfaceVars' = surfaceVars ]_vars

\* C13 happens: after _setup has run, init has just been called with valid
\* options naming another product, and has refused them
C13_Witness ==
    /\ event.op = "init"
    /\ event.result = "undefined"
    /\ ~LacksRequired(event.options)
    /\ event.options.productId # config.productId
    /\ initialized
    /\ setupRuns = 1

\* C14: an init call whose options lack platform or productId returns false
\* and changes nothing: the SDK stays uninitialized and unconfigured, no
\* setup is run or scheduled; and an init call with valid options that
\* follows it returns true, configures the SDK and runs or schedules _setup.
C14_InvalidInitDoesNothing ==
    [][ /\ (~initialized /\ event'.op = "init" /\ LacksRequired(event'.options))
           => /\ event'.result = "false"
              /\ ~initialized' /\ config' = NoConfig
              /\ hostname' = "" /\ environment' = environment
              /\ setup' = "none" /\ setupRuns' = 0
              /\ storage' = storage
              /\ surfaceVars' = surfaceVars
        /\ (event.op = "init" /\ event.result = "false"
              /\ event'.op = "init" /\ ~LacksRequired(event'.options))
           => /\ event'.result = "true"
              /\ initialized'
              /\ config'.productId = event'.options.productId
              /\ config'.platform = ToLowerCase(event'.options.platform)
              /\ setup' \in {"pending", "done"} ]_vars

\* C14 happens: init has just returned false for options that name a
\* platform but no product, and nothing is set up
C14_Witness ==
    /\ event.op = "init"
    /\ event.result = "false"
    /\ event.options.platform # ""
    /\ event.options.productId = ""
    /\ ~initialized
    /\ setup = "none"

\* The origin of the page the iframe shows: event.origin of its messages
OriginOf(src) == << Head(src.base) >>

\* C23: a completion message sent by the page that openCustomizer loaded
\* into the iframe, in either environment, is handled and not dropped.
C23_LaunchOriginAccepted ==
    [][ (MessageStep
           /\ iframeSrc \notin {NoSrc, AboutBlank}
           /\ lastMsg'.origin = OriginOf(iframeSrc)
           /\ lastMsg'.type = MsgComplete)
        => event'.result = "handled" ]_vars

-----------------------------------------------------------------------------
(* Loading the surface: one product, the iframe's load event, which may     *)
(* never come, and the load timers, each of which fires once it is started  *)

LoadStorages ==
    { NoItem, StoredOne("p1", "u1", FALSE) }

LoadOptions ==
    Options({"shopify"}, {"p1"}, {"key"}, {""}, {TRUE})

LoadData ==
    DataOver({MsgComplete, MsgCancel}, {Payload("u1", "d1")})

InitLoad == InitWith(LoadStorages, {NoForm})

NextLoad ==
    \/ \E options \in LoadOptions : InitOk(options)
    \/ DOMContentLoaded
    \/ OpenWithSession
    \/ OpenAcquire
    \/ \E response \in CreateResponses :
          CreateSessionOk(response) \/ CreateSessionFail(response)
    \/ CloseCustomizer
    \/ IframeLoad
    \/ LoadTimeout
    \/ \E data \in LoadData : HandleIframeMessage(TreatinkOrigin, data)
    \/ ClearPersonalizations

\* A timer started by setTimeout fires unless it is cleared; nothing makes
\* the iframe's load event or a fetch's answer arrive
SpecLoad == InitLoad /\ [][NextLoad]_vars /\ WF_vars(LoadTimeout)

\* openCustomizer has just set the launch URL in the open modal
Loading ==
    /\ \/ event.op = "createSessionOk"
       \/ event.op = "openCustomizer" /\ event.result = "resolved"
    /\ modalActive

\* C18: once openCustomizer has set the launch URL in the open modal, the
\* iframe becomes visible unless the modal is closed first, whether or not
\* the iframe's load event comes; and a load timer that fires neither hides
\* a visible iframe nor closes the modal nor changes the iframe's URL.
C18_LoadingBecomesReady ==
    /\ Loading ~> (SurfaceVisible \/ ~modalActive)
    /\ [][ event'.op = "loadTimeout"
           => /\ iframeDisplay = "block" => iframeDisplay' = "block"
              /\ SurfaceVisible => SurfaceVisible'
              /\ modalActive' = modalActive
              /\ iframeSrc' = iframeSrc ]_vars

\* C18 happens: a load timer has just fired while the iframe's load event is
\* still outstanding, and the iframe is visible at the launch URL
C18_Witness ==
    /\ event.op = "loadTimeout"
    /\ loadPending
    /\ SurfaceVisible
    /\ iframeSrc = LaunchUrl(config, hostname, "u1")

=============================================================================
